---------------------------- MODULE Spec2Model ----------------------------
(***************************************************************************)
(* A model of three units of the repository:                               *)
(*   - the credential-error helpers and GoogleVaultBlockHandler.execute    *)
(*     (apps/sim/executor/handlers/google-vault/google-vault-handler.ts),  *)
(*   - the DocumentTagsCell renderer (document-tags-cell.tsx).             *)
(* JavaScript strings are sequences of characters (one-character TLA+      *)
(* strings), so that toLowerCase, includes, trim, JSON.parse and template  *)
(* literals are computed and not assumed.                                  *)
(***************************************************************************)
EXTENDS Integers, Sequences, FiniteSets, TLC

(***************************************************************************)
(* Strings                                                                 *)
(***************************************************************************)

UpperAlpha ==
    <<"A","B","C","D","E","F","G","H","I","J","K","L","M","N","O","P","Q","R","S","T","U","V",
      "W","X","Y","Z">>

LowerAlpha ==
    <<"a","b","c","d","e","f","g","h","i","j","k","l","m","n","o","p","q","r","s","t","u","v",
      "w","x","y","z">>

\* The lower-case letter of each upper-case letter.
LowerOf ==
    [c \in {UpperAlpha[i] : i \in 1..Len(UpperAlpha)} |->
        LowerAlpha[CHOOSE i \in 1..Len(UpperAlpha) : UpperAlpha[i] = c]]

\* String.prototype.toLowerCase on one character of the model's alphabet.
LowerChar(c) == IF c \in DOMAIN LowerOf THEN LowerOf[c] ELSE c

\* String.prototype.toLowerCase.
toLowerCase(s) == [i \in 1..Len(s) |-> LowerChar(s[i])]

\* Whether pat occurs in s at position i (1-based).
StartsWithAt(s, pat, i) ==
    /\ i + Len(pat) - 1 <= Len(s)
    /\ \A k \in 1..Len(pat) : s[i + k - 1] = pat[k]

\* String.prototype.includes.
includes(s, pat) == \E i \in 1..(Len(s) + 1) : StartsWithAt(s, pat, i)

(***************************************************************************)
(* Credential-error detection and enhancement                              *)
(***************************************************************************)

PatInvalidRapt ==
    <<"i","n","v","a","l","i","d","_","r","a","p","t">>

PatReauthRelated ==
    <<"r","e","a","u","t","h"," ","r","e","l","a","t","e","d"," ","e","r","r","o","r">>

PatInvalidGrant ==
    <<"i","n","v","a","l","i","d","_","g","r","a","n","t">>

PatRapt ==
    <<"r","a","p","t">>

PatRefreshToken ==
    <<"f","a","i","l","e","d"," ","t","o"," ","r","e","f","r","e","s","h"," ","t","o","k","e",
      "n">>

PatFetchToken ==
    <<"f","a","i","l","e","d"," ","t","o"," ","f","e","t","c","h"," ","a","c","c","e","s","s",
      " ","t","o","k","e","n">>

Pat401 ==
    <<"4","0","1">>

RemediationLine1 ==
    <<"G","o","o","g","l","e"," ","V","a","u","l","t"," ","a","u","t","h","e","n","t","i","c",
      "a","t","i","o","n"," ","f","a","i","l","e","d"," ","(","l","i","k","e","l","y"," ","d",
      "u","e"," ","t","o"," ","r","e","a","u","t","h","e","n","t","i","c","a","t","i","o","n",
      " ","p","o","l","i","c","y",")","."," ">>

RemediationLine2 ==
    <<"T","o"," ","r","e","s","o","l","v","e"," ","t","h","i","s",","," ","t","r","y"," ","d",
      "i","s","c","o","n","n","e","c","t","i","n","g"," ","a","n","d"," ","r","e","c","o","n",
      "n","e","c","t","i","n","g"," ","y","o","u","r"," ","G","o","o","g","l","e"," ","V","a",
      "u","l","t"," ","c","r","e","d","e","n","t","i","a","l"," ">>

RemediationLine3 ==
    <<"i","n"," ","t","h","e"," ","C","r","e","d","e","n","t","i","a","l","s"," ","s","e","t",
      "t","i","n","g","s","."," ","I","f"," ","t","h","e"," ","i","s","s","u","e"," ","p","e",
      "r","s","i","s","t","s",","," ","a","s","k"," ","y","o","u","r"," ","G","o","o","g","l",
      "e"," ","W","o","r","k","s","p","a","c","e"," ">>

RemediationLine4 ==
    <<"a","d","m","i","n","i","s","t","r","a","t","o","r"," ","t","o"," ","d","i","s","a","b",
      "l","e"," ","\"","R","e","a","u","t","h","e","n","t","i","c","a","t","i","o","n"," ","p",
      "o","l","i","c","y","\""," ","f","o","r"," ","S","i","m"," ","S","t","u","d","i","o"," ",
      "i","n"," ","t","h","e"," ","G","o","o","g","l","e"," ">>

RemediationLine5 ==
    <<"A","d","m","i","n"," ","C","o","n","s","o","l","e"," ","(","S","e","c","u","r","i","t",
      "y"," ",">"," ","A","c","c","e","s","s"," ","a","n","d"," ","d","a","t","a"," ","c","o",
      "n","t","r","o","l"," ",">"," ","C","o","n","t","e","x","t","-","A","w","a","r","e"," ",
      "A","c","c","e","s","s"," ",">"," ">>

RemediationLine6 ==
    <<"R","e","a","u","t","h","e","n","t","i","c","a","t","i","o","n"," ","p","o","l","i","c",
      "y",")",","," ","o","r"," ","e","x","e","m","p","t"," ","S","i","m"," ","S","t","u","d",
      "i","o"," ","f","r","o","m"," ","r","e","a","u","t","h","e","n","t","i","c","a","t","i",
      "o","n"," ","r","e","q","u","i","r","e","m","e","n","t","s","."," ">>

RemediationLine7 ==
    <<"L","e","a","r","n"," ","m","o","r","e",":"," ","h","t","t","p","s",":","/","/","s","u",
      "p","p","o","r","t",".","g","o","o","g","l","e",".","c","o","m","/","a","/","a","n","s",
      "w","e","r","/","9","3","6","8","7","5","6">>

\* The fixed remediation message of enhanceCredentialError.
RemediationMessage ==
    RemediationLine1 \o RemediationLine2 \o RemediationLine3 \o RemediationLine4
        \o RemediationLine5 \o RemediationLine6 \o RemediationLine7

\* isCredentialRefreshError without the lower-casing of the message.
isCredentialRefreshErrorCaseSensitive(errorMessage) ==
    LET lowerMessage == errorMessage IN
        \/ includes(lowerMessage, PatInvalidRapt)
        \/ includes(lowerMessage, PatReauthRelated)
        \/ (includes(lowerMessage, PatInvalidGrant) /\ includes(lowerMessage, PatRapt))
        \/ includes(lowerMessage, PatRefreshToken)
        \/ (includes(lowerMessage, PatFetchToken) /\ includes(lowerMessage, Pat401))

isCredentialRefreshError(errorMessage) ==
    LET lowerMessage == toLowerCase(errorMessage) IN
        \/ includes(lowerMessage, PatInvalidRapt)
        \/ includes(lowerMessage, PatReauthRelated)
        \/ (includes(lowerMessage, PatInvalidGrant) /\ includes(lowerMessage, PatRapt))
        \/ includes(lowerMessage, PatRefreshToken)
        \/ (includes(lowerMessage, PatFetchToken) /\ includes(lowerMessage, Pat401))

enhanceCredentialError(originalError) ==
    IF isCredentialRefreshError(originalError) THEN RemediationMessage ELSE originalError

(***************************************************************************)
(* Error texts the tool layer produces, used as inputs                     *)
(***************************************************************************)

TextInvalidRaptUpper ==
    <<"I","N","V","A","L","I","D","_","R","A","P","T">>

TextInvalidPrefix ==
    <<"i","n","v","a","l","i","d","_">>

TextRaptMixed ==
    <<"R","a","p","t">>

TextReauthMixed ==
    <<"R","e","a","u","t","h"," ","R","e","l","a","t","e","d"," ","E","r","r","o","r">>

TextInvalidGrant ==
    <<"i","n","v","a","l","i","d","_","g","r","a","n","t",":"," ">>

TextRefreshMixed ==
    <<"F","a","i","l","e","d"," ","t","o"," ","r","e","f","r","e","s","h"," ","t","o","k","e",
      "n">>

TextRefreshHead ==
    <<"f","a","i","l","e","d"," ","t","o"," ","r","e","f","r","e","s","h">>

TextTokenTail ==
    <<" ","t","o","k","e","n">>

TextFetchToken ==
    <<"F","a","i","l","e","d"," ","t","o"," ","f","e","t","c","h"," ","a","c","c","e","s","s",
      " ","t","o","k","e","n"," ">>

Text401 ==
    <<"(","4","0","1",")">>

TextRateLimit ==
    <<"r","a","t","e"," ","l","i","m","i","t"," ","e","x","c","e","e","d","e","d">>

TextPlaceholder ==
    <<"u","n","d","e","f","i","n","e","d"," ","(","u","n","d","e","f","i","n","e","d",")">>

TextReauthPolicy ==
    <<"R","e","a","u","t","h","e","n","t","i","c","a","t","i","o","n"," ","p","o","l","i","c",
      "y">>

LitTrue ==
    <<"t","r","u","e">>

LitFalse ==
    <<"f","a","l","s","e">>

LitNull ==
    <<"n","u","l","l">>

TextToolNotFound ==
    <<"T","o","o","l"," ","n","o","t"," ","f","o","u","n","d",":"," ">>

TextBlockExecutionOf ==
    <<"B","l","o","c","k"," ","e","x","e","c","u","t","i","o","n"," ","o","f"," ">>

TextFailedNoMessage ==
    <<" ","f","a","i","l","e","d"," ","w","i","t","h"," ","n","o"," ","e","r","r","o","r"," ",
      "m","e","s","s","a","g","e">>

TextFailed ==
    <<" ","f","a","i","l","e","d">>

TextColonSpace ==
    <<":"," ">>

TextStatusOpen ==
    <<" ","(","S","t","a","t","u","s",":"," ">>

TextStatusClose ==
    <<")">>

TextUnknownTool ==
    <<"U","n","k","n","o","w","n"," ","t","o","o","l">>

TextUnnamedBlock ==
    <<"U","n","n","a","m","e","d"," ","B","l","o","c","k">>

TextCreateMatters ==
    <<"c","r","e","a","t","e","_","m","a","t","t","e","r","s">>

TextVaultCreateMatter ==
    <<"V","a","u","l","t"," ","C","r","e","a","t","e"," ","M","a","t","t","e","r">>

TextMissingTool ==
    <<"l","i","s","t","_","h","o","l","d","s">>

TextGoogleVault ==
    <<"g","o","o","g","l","e","_","v","a","u","l","t">>

TextBlockName ==
    <<"V","a","u","l","t"," ","1">>

TextBoom ==
    <<"b","o","o","m">>

JsonObjectText ==
    <<"{","\"","a","\"",":","1","}">>

JsonArrayText ==
    <<"[","1",",","2","]">>

JsonPaddedText ==
    <<" ","{","\"","a","\"",":","1","}"," ">>

JsonMalformedText ==
    <<"{","a",":">>

JsonBlankText ==
    <<" "," "," ">>

TextBlockId ==
    <<"b","1">>

TextWorkflowId ==
    <<"w","f","1">>

TextWorkspaceId ==
    <<"w","s","1">>

TextExecutionId ==
    <<"e","x","1">>

TextTimestamp1 ==
    <<"2","0","2","6","-","0","1","-","0","1","T","0","0",":","0","0",":","0","0",".","0","0",
      "0","Z">>

TextTimestamp2 ==
    <<"2","0","2","6","-","0","1","-","0","2","T","0","0",":","0","0",":","0","0",".","0","0",
      "0","Z">>

TextMatter ==
    <<"m","a","t","t","e","r","s","/","1">>

TextModel ==
    <<"n","o","n","e">>

SlotTag1 ==
    <<"t","a","g","1">>

SlotTag2 ==
    <<"t","a","g","2">>

SlotTag3 ==
    <<"t","a","g","3">>

SlotTag4 ==
    <<"t","a","g","4">>

SlotTag5 ==
    <<"t","a","g","5">>

SlotTag6 ==
    <<"t","a","g","6">>

SlotTag7 ==
    <<"t","a","g","7">>

SlotNumber1 ==
    <<"n","u","m","b","e","r","1">>

SlotNumber2 ==
    <<"n","u","m","b","e","r","2">>

SlotNumber3 ==
    <<"n","u","m","b","e","r","3">>

SlotNumber4 ==
    <<"n","u","m","b","e","r","4">>

SlotNumber5 ==
    <<"n","u","m","b","e","r","5">>

SlotDate1 ==
    <<"d","a","t","e","1">>

SlotDate2 ==
    <<"d","a","t","e","2">>

SlotBoolean1 ==
    <<"b","o","o","l","e","a","n","1">>

SlotBoolean2 ==
    <<"b","o","o","l","e","a","n","2">>

SlotBoolean3 ==
    <<"b","o","o","l","e","a","n","3">>

PrefixTag ==
    <<"t","a","g">>

PrefixNumber ==
    <<"n","u","m","b","e","r">>

PrefixDate ==
    <<"d","a","t","e">>

PrefixBoolean ==
    <<"b","o","o","l","e","a","n">>

TextYes ==
    <<"Y","e","s">>

TextNo ==
    <<"N","o">>

TextIsoDate ==
    <<"2","0","2","4","-","0","3","-","0","5","T","0","0",":","0","0",":","0","0","Z">>

TextNotADate ==
    <<"s","o","o","n">>

TextAlpha ==
    <<"a","l","p","h","a">>

TextTopic ==
    <<"T","o","p","i","c">>

TextCommaSpace ==
    <<","," ">>

TextIsoTail ==
    <<"T","0","0",":","0","0",":","0","0","Z">>

(***************************************************************************)
(* JavaScript values                                                       *)
(***************************************************************************)

Undefined == [t |-> "undefined"]

Null == [t |-> "null"]

Str(s) == [t |-> "string", s |-> s]

Num(n) == [t |-> "number", n |-> n]

Bool(b) == [t |-> "boolean", b |-> b]

Arr(e) == [t |-> "array", e |-> e]

\* A plain object: p maps its own property names to values.
Obj(p) == [t |-> "object", class |-> "Object", p |-> p]

\* An Error instance (or an instance of a subclass such as TypeError).
ErrorObj(class, p) == [t |-> "object", class |-> class, p |-> p]

\* An object produced by JSON.parse: its members in insertion order.
JsonObject(m) == [t |-> "object", class |-> "Object", m |-> m]

NoProps == [k \in {} |-> Undefined]

\* ToBoolean.
Truthy(v) ==
    CASE v.t = "undefined" -> FALSE
      [] v.t = "null" -> FALSE
      [] v.t = "string" -> v.s # <<>>
      [] v.t = "number" -> v.n # 0
      [] v.t = "boolean" -> v.b
      [] OTHER -> TRUE

\* A property read o[k] on a property map: undefined when k is not a property.
Get(p, k) == IF k \in DOMAIN p THEN p[k] ELSE Undefined

\* Object spread { ...a, ...b } on property maps.
Spread(a, b) ==
    [k \in (DOMAIN a) \cup (DOMAIN b) |-> IF k \in DOMAIN b THEN b[k] ELSE a[k]]

\* `error instanceof Error`.
InstanceOfError(v) == v.t = "object" /\ v.class \in {"Error", "TypeError"}

Digits == <<"0","1","2","3","4","5","6","7","8","9">>

IsDigit(c) == \E d \in 1..Len(Digits) : Digits[d] = c

DigitValue(c) == (CHOOSE d \in 1..Len(Digits) : Digits[d] = c) - 1

\* String(n) for a non-negative integer, as a template literal renders it.
RECURSIVE NumberToString(_)
NumberToString(n) ==
    IF n < 10 THEN <<Digits[n + 1]>>
    ELSE NumberToString(n \div 10) \o <<Digits[(n % 10) + 1]>>

(***************************************************************************)
(* String.prototype.trim and JSON.parse                                    *)
(***************************************************************************)

\* The white space JSON.parse skips between tokens.
JsonWhiteSpace == {" ", "\t", "\n", "\r"}

\* The white space trim() strips: JSON's, and among others the form feed,
\* the no-break space and the byte order mark.
TrimWhiteSpace == JsonWhiteSpace \cup {"\f", "U+00A0", "U+FEFF"}

RECURSIVE TrimStart(_)
TrimStart(s) == IF s # <<>> /\ Head(s) \in TrimWhiteSpace THEN TrimStart(Tail(s)) ELSE s

RECURSIVE TrimEnd(_)
TrimEnd(s) ==
    IF s # <<>> /\ s[Len(s)] \in TrimWhiteSpace THEN TrimEnd(SubSeq(s, 1, Len(s) - 1)) ELSE s

trim(s) == TrimEnd(TrimStart(s))

RECURSIVE SkipWs(_, _)
SkipWs(s, i) == IF i <= Len(s) /\ s[i] \in JsonWhiteSpace THEN SkipWs(s, i + 1) ELSE i

ParseFail == [ok |-> FALSE]

ParseOk(v, i) == [ok |-> TRUE, v |-> v, i |-> i]

RECURSIVE ParseDigits(_, _, _)
ParseDigits(s, i, n) ==
    IF i <= Len(s) /\ IsDigit(s[i]) THEN ParseDigits(s, i + 1, n * 10 + DigitValue(s[i]))
    ELSE ParseOk(Num(n), i)

\* A JSON number of the inputs' alphabet: 0, or digits without a leading zero.
ParseNumber(s, i) == IF s[i] = "0" THEN ParseOk(Num(0), i + 1) ELSE ParseDigits(s, i, 0)

\* The characters of a JSON string after its opening quote (the inputs hold no
\* escape sequences; a raw control character is a syntax error).
RECURSIVE ParseChars(_, _, _)
ParseChars(s, i, acc) ==
    IF i > Len(s) THEN ParseFail
    ELSE IF s[i] = "\"" THEN ParseOk(Str(acc), i + 1)
    ELSE IF s[i] \in {"\\", "\t", "\n", "\r", "\f"} THEN ParseFail
    ELSE ParseChars(s, i + 1, Append(acc, s[i]))

\* Defining a member: a repeated key keeps its place and takes the later value.
SetMember(m, k, v) ==
    IF \E j \in 1..Len(m) : m[j].k = k
    THEN [j \in 1..Len(m) |-> IF m[j].k = k THEN [k |-> k, v |-> v] ELSE m[j]]
    ELSE Append(m, [k |-> k, v |-> v])

RECURSIVE ParseValue(_, _), ParseMembers(_, _, _), ParseElements(_, _, _)
ParseValue(s, i0) ==
    LET i == SkipWs(s, i0) IN
    IF i > Len(s) THEN ParseFail
    ELSE IF s[i] = "{" THEN
        LET j == SkipWs(s, i + 1) IN
        IF j <= Len(s) /\ s[j] = "}" THEN ParseOk(JsonObject(<<>>), j + 1)
        ELSE ParseMembers(s, j, <<>>)
    ELSE IF s[i] = "[" THEN
        LET j == SkipWs(s, i + 1) IN
        IF j <= Len(s) /\ s[j] = "]" THEN ParseOk(Arr(<<>>), j + 1)
        ELSE ParseElements(s, j, <<>>)
    ELSE IF s[i] = "\"" THEN ParseChars(s, i + 1, <<>>)
    ELSE IF IsDigit(s[i]) THEN ParseNumber(s, i)
    ELSE IF StartsWithAt(s, LitTrue, i) THEN ParseOk(Bool(TRUE), i + Len(LitTrue))
    ELSE IF StartsWithAt(s, LitFalse, i) THEN ParseOk(Bool(FALSE), i + Len(LitFalse))
    ELSE IF StartsWithAt(s, LitNull, i) THEN ParseOk(Null, i + Len(LitNull))
    ELSE ParseFail

ParseMembers(s, i, acc) ==
    IF i > Len(s) \/ s[i] # "\"" THEN ParseFail
    ELSE
        LET key == ParseChars(s, i + 1, <<>>) IN
        IF ~key.ok THEN ParseFail
        ELSE
            LET c == SkipWs(s, key.i) IN
            IF c > Len(s) \/ s[c] # ":" THEN ParseFail
            ELSE
                LET val == ParseValue(s, c + 1) IN
                IF ~val.ok THEN ParseFail
                ELSE
                    LET acc2 == SetMember(acc, key.v.s, val.v)
                        d == SkipWs(s, val.i)
                    IN  IF d > Len(s) THEN ParseFail
                        ELSE IF s[d] = "}" THEN ParseOk(JsonObject(acc2), d + 1)
                        ELSE IF s[d] = "," THEN ParseMembers(s, SkipWs(s, d + 1), acc2)
                        ELSE ParseFail

ParseElements(s, i, acc) ==
    LET val == ParseValue(s, i) IN
    IF ~val.ok THEN ParseFail
    ELSE
        LET acc2 == Append(acc, val.v)
            d == SkipWs(s, val.i)
        IN  IF d > Len(s) THEN ParseFail
            ELSE IF s[d] = "]" THEN ParseOk(Arr(acc2), d + 1)
            ELSE IF s[d] = "," THEN ParseElements(s, d + 1, acc2)
            ELSE ParseFail

\* JSON.parse(text): ok with the value, or not ok where it throws a SyntaxError.
JSONparse(text) ==
    LET r == ParseValue(text, 1) IN
    IF r.ok /\ SkipWs(text, r.i) > Len(text) THEN [ok |-> TRUE, v |-> r.v]
    ELSE [ok |-> FALSE]

(***************************************************************************)
(* GoogleVaultBlockHandler.execute                                         *)
(***************************************************************************)

VARIABLES
    pc,            \* "idle" | "awaiting" (suspended at `await executeTool`) | "returned" | "rejected"
    caller,        \* the caller's live objects: [ctx, block, inputs]
    args,          \* the arguments as they were when execute was called
    blockConfig,   \* what getBlock(blockType) returned in this run
    finalInputs,   \* the handler's local finalInputs object
    mergedInputs,  \* finalInputs as it was after the parameter transform (line 83)
    warnings,      \* logger.warn calls of this run
    calls,         \* executeTool invocations of this run
    produced,      \* what executeTool produced, as it was when produced
    toolValue,     \* the live result object or thrown value of executeTool
    outcome,       \* how the run ended
    originalError, \* argument of a direct call of enhanceCredentialError
    enhanced,      \* its return value
    document,      \* DocumentTagsCell props: the document, as [key, value] entries
    tagDefinitions,\* DocumentTagsCell props: the tag definitions
    rendered       \* what DocumentTagsCell rendered

execVars ==
    <<pc, caller, args, blockConfig, finalInputs, mergedInputs, warnings, calls, produced,
      toolValue, outcome>>

credVars == <<originalError, enhanced>>

cellVars == <<document, tagDefinitions, rendered>>

vars == <<execVars, credVars, cellVars>>

\* The tool of the repository's tool registry.
createMattersTool == [t |-> "tool", id |-> TextCreateMatters, name |-> TextVaultCreateMatter]

\* getTool(toolId): the registered tool with that id, or undefined.
getTool(toolId) == IF toolId = createMattersTool.id THEN createMattersTool ELSE Undefined

\* `tool?.name || block.config.tool`
ToolLabel(tool, b) == IF tool.name # <<>> THEN tool.name ELSE b.config.tool

\* `block.metadata?.name || 'Unnamed Block'`
BlockNameOrDefault(b) ==
    IF Truthy(b.metadata.name) THEN b.metadata.name ELSE Str(TextUnnamedBlock)

\* `let finalInputs = inputs`: finalInputs is the caller's object itself.
CopyInputsAliased(inputs) ==
    [ref |-> "inputs", inputs |-> inputs, final |-> inputs, warnings |-> <<>>]

\* `let finalInputs = { ...inputs }`: finalInputs is a fresh object holding a
\* copy of the properties of inputs. st.ref names the object finalInputs refers to.
CopyInputs(inputs) == [ref |-> "fresh", inputs |-> inputs, final |-> inputs, warnings |-> <<>>]

\* `finalInputs[key] = v`: a write to the object finalInputs refers to.
StoreFinal(st, key, v) ==
    LET put(p) == Spread(p, [k \in {key} |-> v]) IN
    IF st.ref = "inputs" THEN [st EXCEPT !.inputs = put(@), !.final = put(@)]
    ELSE [st EXCEPT !.final = put(@)]

\* blockConfig.tools.config.params(inputs): the transforms of the block types.
\* One returns a fixed query, one copies the raw query into terms, one throws.
ApplyParams(kind, inputs) ==
    CASE kind = "override" -> [ok |-> TRUE, v |-> [k \in {"query"} |-> Str(JsonArrayText)]]
      [] kind = "copy" -> [ok |-> TRUE, v |-> [k \in {"terms"} |-> Get(inputs, "query")]]
      [] OTHER -> [ok |-> FALSE]

\* The transform merged the wrong way round: { ...transformedParams, ...inputs }.
TransformInputsRawWins(st, bc) ==
    IF bc.t = "undefined" \/ bc.params = "absent" THEN st
    ELSE
        LET transformedParams == ApplyParams(bc.params, st.inputs) IN
        IF transformedParams.ok
        THEN [st EXCEPT !.ref = "fresh", !.final = Spread(transformedParams.v, st.inputs)]
        ELSE [st EXCEPT !.warnings = Append(@, [kind |-> "transform"])]

\* Lines 74-83: the parameter transform, merged over the raw inputs.
TransformInputs(st, bc) ==
    IF bc.t = "undefined" \/ bc.params = "absent" THEN st
    ELSE
        LET transformedParams == ApplyParams(bc.params, st.inputs) IN
        IF transformedParams.ok
        THEN [st EXCEPT !.ref = "fresh", !.final = Spread(st.inputs, transformedParams.v)]
        ELSE [st EXCEPT !.warnings = Append(@, [kind |-> "transform"])]

\* The loop's iteration without the check of the declared type: every non-empty
\* string field is parsed.
CoerceFieldAnyType(st, key, inputSchema) ==
    LET value == Get(st.final, key) IN
    IF value.t = "string" /\ Len(trim(value.s)) > 0
    THEN
        LET parsed == JSONparse(trim(value.s)) IN
        IF parsed.ok THEN StoreFinal(st, key, parsed.v)
        ELSE [st EXCEPT !.warnings = Append(@, [kind |-> "parse", key |-> key])]
    ELSE st

\* Lines 87-99: one iteration of the loop over Object.entries(blockConfig.inputs).
CoerceField(st, key, inputSchema) ==
    LET value == Get(st.final, key) IN
    IF value.t = "string" /\ Len(trim(value.s)) > 0
    THEN
        LET inputType == IF inputSchema.t = "object" THEN inputSchema.type ELSE inputSchema.s IN
        IF inputType = "json" \/ inputType = "array"
        THEN
            LET parsed == JSONparse(trim(value.s)) IN
            IF parsed.ok THEN StoreFinal(st, key, parsed.v)
            ELSE [st EXCEPT !.warnings = Append(@, [kind |-> "parse", key |-> key])]
        ELSE st
    ELSE st

RECURSIVE CoerceFields(_, _, _)
CoerceFields(st, entries, i) ==
    IF i > Len(entries) THEN st
    ELSE CoerceFields(CoerceField(st, entries[i].key, entries[i].schema), entries, i + 1)

\* Lines 85-101.
CoerceInputs(st, bc) ==
    IF bc.t = "undefined" \/ bc.inputs = <<>> THEN st ELSE CoerceFields(st, bc.inputs, 1)

\* Lines 69-102: from the copy of inputs to the finalized inputs. merged is
\* finalInputs between the transform and the coercion.
PrepareInputs(inputs, blockType, bc) ==
    LET st0 == CopyInputs(inputs) IN
    IF Truthy(blockType)
    THEN
        LET st1 == TransformInputs(st0, bc)
            st2 == CoerceInputs(st1, bc)
        IN  [st |-> st2, merged |-> st1.final]
    ELSE [st |-> st0, merged |-> st0.final]

\* The executeTool call with its fourth argument true.
ToolCallPostProcessSkipped(b, final, c) ==
    [toolId |-> b.config.tool,
     params |-> Spread(final, [k \in {"_context"} |->
                    Obj([workflowId |-> c.workflowId, workspaceId |-> c.workspaceId,
                         executionId |-> c.executionId])]),
     skipProxy |-> FALSE,
     skipPostProcess |-> TRUE,
     ctx |-> c]

\* Lines 105-118: the arguments of the executeTool call.
ToolCall(b, final, c) ==
    [toolId |-> b.config.tool,
     params |-> Spread(final, [k \in {"_context"} |->
                    Obj([workflowId |-> c.workflowId, workspaceId |-> c.workspaceId,
                         executionId |-> c.executionId])]),
     skipProxy |-> FALSE,
     skipPostProcess |-> FALSE,
     ctx |-> c]

\* Array.prototype.join.
RECURSIVE Join(_, _)
Join(parts, sep) ==
    IF parts = <<>> THEN <<>>
    ELSE IF Len(parts) = 1 THEN parts[1]
    ELSE parts[1] \o sep \o Join(Tail(parts), sep)

TextDash == <<" ", "-", " ">>

\* Lines 121-141: the error built for a result with success = false.
FailureError(result, tool, b, now) ==
    LET errorDetails ==
            IF Truthy(Get(result.p, "error"))
            THEN <<enhanceCredentialError(result.p.error.s)>>
            ELSE <<>>
        errorMessage ==
            IF Len(errorDetails) > 0 THEN Join(errorDetails, TextDash)
            ELSE TextBlockExecutionOf \o ToolLabel(tool, b) \o TextFailedNoMessage
    IN  ErrorObj("Error",
            [message |-> Str(errorMessage),
             toolId |-> Str(b.config.tool),
             toolName |-> Str(IF tool.name # <<>> THEN tool.name ELSE TextUnknownTool),
             blockId |-> Str(b.id),
             blockName |-> BlockNameOrDefault(b),
             output |-> IF Truthy(Get(result.p, "output")) THEN result.p.output ELSE Obj(NoProps),
             timestamp |-> Str(now)])

\* A property read v.k on any value that is neither null nor undefined.
PropOf(v, k) == IF v.t = "object" /\ "p" \in DOMAIN v THEN Get(v.p, k) ELSE Undefined

\* The success value with the whole cost object passed on as cost.
SuccessValueWholeCost(result) ==
    LET output == Get(result.p, "output")
        cost == IF Truthy(PropOf(output, "cost")) THEN PropOf(output, "cost") ELSE Null
    IN  IF Truthy(cost)
        THEN Obj(Spread(output.p,
                 [cost |-> cost, tokens |-> PropOf(cost, "tokens"), model |-> PropOf(cost, "model")]))
        ELSE output

\* Lines 146-166: the value returned for a result with success = true.
SuccessValue(result) ==
    LET output == Get(result.p, "output")
        cost == IF Truthy(PropOf(output, "cost")) THEN PropOf(output, "cost") ELSE Null
    IN  IF Truthy(cost)
        THEN Obj(Spread(output.p,
                 [cost |-> Obj([input |-> PropOf(cost, "input"),
                                output |-> PropOf(cost, "output"),
                                total |-> PropOf(cost, "total")]),
                  tokens |-> PropOf(cost, "tokens"),
                  model |-> PropOf(cost, "model")]))
        ELSE output

\* ToString of a status inside a template literal.
StatusText(v) == IF v.t = "number" THEN NumberToString(v.n) ELSE v.s

\* Lines 177-185: the message synthesized for an empty or placeholder message.
SynthesizedMessage(error, tool, b) ==
    TextBlockExecutionOf \o ToolLabel(tool, b) \o TextFailed
        \o (IF Truthy(b.metadata.name) THEN TextColonSpace \o b.metadata.name.s ELSE <<>>)
        \o (IF Truthy(PropOf(error, "status"))
            THEN TextStatusOpen \o StatusText(PropOf(error, "status")) \o TextStatusClose
            ELSE <<>>)

SetProp(error, k, v) == [error EXCEPT !.p = Spread(@, [x \in {k} |-> v])]

\* Lines 169-174: credential enhancement of an Error's message.
EnhanceThrown(error) ==
    IF InstanceOfError(error)
    THEN
        LET enhancedMessage == enhanceCredentialError(PropOf(error, "message").s) IN
        IF enhancedMessage # PropOf(error, "message").s
        THEN SetProp(error, "message", Str(enhancedMessage))
        ELSE error
    ELSE error

\* Lines 190-193: backfill of toolId and blockName.
BackfillDiagnostics(error, b) ==
    IF error.t = "object"
    THEN
        LET e1 == IF ~Truthy(PropOf(error, "toolId"))
                  THEN SetProp(error, "toolId", Str(b.config.tool)) ELSE error
        IN  IF ~Truthy(PropOf(e1, "blockName"))
            THEN SetProp(e1, "blockName", BlockNameOrDefault(b)) ELSE e1
    ELSE error

\* The TypeError the runtime raises inside the catch block.
RuntimeTypeError == ErrorObj("TypeError", NoProps)

\* The catch block without the placeholder test of line 176: only an empty
\* message is replaced.
CatchBlockKeepingPlaceholder(error, tool, b) ==
    IF error.t \in {"undefined", "null"} THEN [raised |-> "TypeError", error |-> error]
    ELSE
        LET e1 == EnhanceThrown(error)
            message == PropOf(e1, "message")
            blank == ~Truthy(message)
        IN  IF blank /\ e1.t # "object" THEN [raised |-> "TypeError", error |-> error]
            ELSE
                LET e2 == IF blank
                          THEN SetProp(e1, "message", Str(SynthesizedMessage(e1, tool, b)))
                          ELSE e1
                IN  [raised |-> "same", error |-> BackfillDiagnostics(e2, b)]

\* Lines 167-196: the catch block. raised = "same": `throw error` re-raises the
\* caught value, which is error as the block left it. raised = "TypeError": the
\* block itself threw: reading .message of null or undefined (line 176), or, the
\* module being strict-mode code, assigning .message on a primitive (line 187);
\* the caught value is then left as it was.
CatchBlock(error, tool, b) ==
    IF error.t \in {"undefined", "null"} THEN [raised |-> "TypeError", error |-> error]
    ELSE
        LET e1 == EnhanceThrown(error)
            message == PropOf(e1, "message")
            blank == ~Truthy(message) \/ message = Str(TextPlaceholder)
        IN  IF blank /\ e1.t # "object" THEN [raised |-> "TypeError", error |-> error]
            ELSE
                LET e2 == IF blank
                          THEN SetProp(e1, "message", Str(SynthesizedMessage(e1, tool, b)))
                          ELSE e1
                IN  [raised |-> "same", error |-> BackfillDiagnostics(e2, b)]

(***************************************************************************)
(* Inputs of execute and behaviours of its collaborators                   *)
(***************************************************************************)

\* A string that is JSON only once trim() has stripped its byte order mark.
JsonBomText == <<"U+FEFF">> \o JsonObjectText

Contexts ==
    {[workflowId |-> Str(TextWorkflowId), workspaceId |-> Str(TextWorkspaceId),
      executionId |-> Str(TextExecutionId)]}

Blocks ==
    {[id |-> TextBlockId, metadata |-> [id |-> i, name |-> n], config |-> [tool |-> tl]] :
        i \in {Undefined, Str(TextGoogleVault)},
        n \in {Undefined, Str(TextBlockName)},
        tl \in {TextCreateMatters, TextMissingTool}}

\* blockConfig.inputs: a schema is an object with a type, or the type itself.
InputSchema ==
    <<[key |-> "query", schema |-> [t |-> "object", type |-> "json"]],
      [key |-> "terms", schema |-> [t |-> "string", s |-> "array"]],
      [key |-> "name", schema |-> [t |-> "object", type |-> "string"]]>>

\* What getBlock(blockType) returns: undefined, or a configuration with or
\* without a parameter transform and with or without declared inputs.
BlockConfigs ==
    {Undefined} \cup
    {[t |-> "config", params |-> p, inputs |-> s] :
        p \in {"absent", "override", "copy", "throws"}, s \in {<<>>, InputSchema}}

QueryValues ==
    {Str(JsonObjectText), Str(JsonMalformedText), Str(JsonPaddedText), Str(JsonBomText),
     Str(JsonBlankText), Str(<<>>), Num(5)}

InputObjects ==
    {Spread(q, n) :
        q \in {NoProps} \cup {[k \in {"query"} |-> v] : v \in QueryValues},
        n \in {NoProps, [k \in {"name"} |-> Str(JsonArrayText)]}}

Clock == {TextTimestamp1, TextTimestamp2}

CostFull ==
    Obj([input |-> Num(1), output |-> Num(2), total |-> Num(3), tokens |-> Num(40),
         model |-> Str(TextModel)])

CostBare == Obj([input |-> Num(1), output |-> Num(2), total |-> Num(3), pricing |-> Num(9)])

Outputs ==
    {Obj([matter |-> Str(TextMatter)]),
     Obj([matter |-> Str(TextMatter), cost |-> CostFull]),
     Obj([matter |-> Str(TextMatter), tokens |-> Num(7), cost |-> CostBare]),
     Obj([matter |-> Str(TextMatter), cost |-> Num(0)])}

SuccessResults ==
    {Obj([success |-> Bool(TRUE)])} \cup {Obj([success |-> Bool(TRUE), output |-> o]) : o \in Outputs}

FailureTexts ==
    {Str(TextRateLimit), Str(TextRefreshHead \o TextTokenTail), Str(TextPlaceholder), Str(<<>>)}

FailureResults ==
    {Obj([success |-> Bool(FALSE)]),
     Obj([success |-> Bool(FALSE), output |-> Obj([matter |-> Str(TextMatter)])])}
    \cup {Obj([success |-> Bool(FALSE), error |-> e]) : e \in FailureTexts}
    \cup {Obj([success |-> Bool(FALSE), error |-> e, output |-> Obj([matter |-> Str(TextMatter)])]) :
            e \in FailureTexts}

ThrownMessages == {<<>>, TextPlaceholder, TextRefreshMixed, TextRateLimit}

ThrownErrors ==
    {ErrorObj("Error", Spread(Spread([message |-> Str(m)], st), pre)) :
        m \in ThrownMessages,
        st \in {NoProps, [status |-> Num(500)]},
        pre \in {NoProps, [toolId |-> Str(TextMissingTool), blockName |-> Str(TextBoom)]}}

\* What executeTool can throw: Error instances, an object that is no Error,
\* and values that are no objects.
ThrownValues ==
    ThrownErrors \cup {Obj([message |-> Str(PatInvalidRapt)]), Str(TextBoom), Undefined, Null}

(***************************************************************************)
(* The run of execute: two steps, separated by `await executeTool(...)`    *)
(***************************************************************************)

NoOutcome == [kind |-> "pending"]

NotProduced == [kind |-> "none"]

IdleExec ==
    /\ pc = "idle"
    /\ caller = Undefined
    /\ args = Undefined
    /\ blockConfig = Undefined
    /\ finalInputs = Undefined
    /\ mergedInputs = Undefined
    /\ warnings = <<>>
    /\ calls = <<>>
    /\ produced = NotProduced
    /\ toolValue = Undefined
    /\ outcome = NoOutcome

\* Lines 64-67: getTool resolves nothing and execute rejects.
ExecuteToolNotFound(c, b, inputs) ==
    /\ pc = "idle"
    /\ getTool(b.config.tool) = Undefined
    /\ pc' = "rejected"
    /\ caller' = [ctx |-> c, block |-> b, inputs |-> inputs]
    /\ args' = [ctx |-> c, block |-> b, inputs |-> inputs]
    /\ outcome' = [kind |-> "rejected", raised |-> "new",
                   error |-> ErrorObj("Error", [message |-> Str(TextToolNotFound \o b.config.tool)])]
    /\ UNCHANGED <<blockConfig, finalInputs, mergedInputs, warnings, calls, produced, toolValue>>
    /\ UNCHANGED <<credVars, cellVars>>

\* Lines 64-118: the tool resolves; execute prepares the inputs, calls
\* executeTool and suspends. bc is what getBlock returns when it is called.
ExecuteCall(c, b, inputs, bc) ==
    /\ pc = "idle"
    /\ getTool(b.config.tool) # Undefined
    /\ ~Truthy(b.metadata.id) => bc = Undefined
    /\ LET prep == PrepareInputs(inputs, b.metadata.id, bc) IN
        /\ pc' = "awaiting"
        /\ caller' = [ctx |-> c, block |-> b, inputs |-> prep.st.inputs]
        /\ args' = [ctx |-> c, block |-> b, inputs |-> inputs]
        /\ blockConfig' = bc
        /\ finalInputs' = Obj(prep.st.final)
        /\ mergedInputs' = Obj(prep.merged)
        /\ warnings' = prep.st.warnings
        /\ calls' = Append(calls, ToolCall(b, prep.st.final, c))
    /\ UNCHANGED <<produced, toolValue, outcome>>
    /\ UNCHANGED <<credVars, cellVars>>

\* Lines 120-144 and 167-196: executeTool resolves with success = false; the
\* error built for it is thrown inside the try block and so passes the catch block.
ToolReportsFailure(result, now) ==
    /\ pc = "awaiting"
    /\ ~Truthy(Get(result.p, "success"))
    /\ LET b == caller.block
           tool == getTool(b.config.tool)
           caught == CatchBlock(FailureError(result, tool, b, now), tool, b)
       IN  outcome' = [kind |-> "rejected",
                       raised |-> IF caught.raised = "same" THEN "constructed" ELSE "TypeError",
                       error |-> IF caught.raised = "same" THEN caught.error ELSE RuntimeTypeError]
    /\ pc' = "rejected"
    /\ produced' = [kind |-> "result", value |-> result]
    /\ toolValue' = result
    /\ UNCHANGED <<caller, args, blockConfig, finalInputs, mergedInputs, warnings, calls>>
    /\ UNCHANGED <<credVars, cellVars>>

\* Lines 146-166: executeTool resolves with success = true.
ToolSucceeds(result) ==
    /\ pc = "awaiting"
    /\ Truthy(Get(result.p, "success"))
    /\ outcome' = [kind |-> "returned", value |-> SuccessValue(result)]
    /\ pc' = "returned"
    /\ produced' = [kind |-> "result", value |-> result]
    /\ toolValue' = result
    /\ UNCHANGED <<caller, args, blockConfig, finalInputs, mergedInputs, warnings, calls>>
    /\ UNCHANGED <<credVars, cellVars>>

\* Lines 167-196: executeTool throws (its promise rejects) with value thrown.
ToolThrows(thrown) ==
    /\ pc = "awaiting"
    /\ LET b == caller.block
           tool == getTool(b.config.tool)
           caught == CatchBlock(thrown, tool, b)
       IN  /\ toolValue' = caught.error
           /\ outcome' = [kind |-> "rejected",
                          raised |-> IF caught.raised = "same" THEN "thrown" ELSE "TypeError",
                          error |-> IF caught.raised = "same" THEN caught.error
                                    ELSE RuntimeTypeError]
    /\ pc' = "rejected"
    /\ produced' = [kind |-> "throw", value |-> thrown]
    /\ UNCHANGED <<caller, args, blockConfig, finalInputs, mergedInputs, warnings, calls>>
    /\ UNCHANGED <<credVars, cellVars>>

\* The run is over: its locals are gone, and the handler keeps nothing.
RunEnds ==
    /\ pc \in {"returned", "rejected"}
    /\ pc' = "idle"
    /\ caller' = Undefined
    /\ args' = Undefined
    /\ blockConfig' = Undefined
    /\ finalInputs' = Undefined
    /\ mergedInputs' = Undefined
    /\ warnings' = <<>>
    /\ calls' = <<>>
    /\ produced' = NotProduced
    /\ toolValue' = Undefined
    /\ outcome' = NoOutcome
    /\ UNCHANGED <<credVars, cellVars>>

(***************************************************************************)
(* Direct calls of enhanceCredentialError                                  *)
(***************************************************************************)

MaxFragments == 2

ErrorFragments ==
    {TextInvalidRaptUpper, TextInvalidPrefix, TextRaptMixed, TextReauthMixed, TextInvalidGrant,
     TextRefreshMixed, TextRefreshHead, TextTokenTail, TextFetchToken, Text401, TextRateLimit,
     PatReauthRelated}

RECURSIVE Concat(_)
Concat(parts) == IF parts = <<>> THEN <<>> ELSE Head(parts) \o Concat(Tail(parts))

\* Error texts: up to MaxFragments fragments, one after the other.
ErrorTexts ==
    {Concat(parts) : parts \in UNION {[1..n -> ErrorFragments] : n \in 0..MaxFragments}}

NotCalled == [done |-> FALSE]

IdleCred == originalError = <<>> /\ enhanced = NotCalled

CallEnhance ==
    /\ ~enhanced.done
    /\ enhanced' = [done |-> TRUE, value |-> enhanceCredentialError(originalError)]
    /\ UNCHANGED <<originalError, execVars, cellVars>>

(***************************************************************************)
(* DocumentTagsCell                                                        *)
(***************************************************************************)

\* All tag slot keys that can hold values, in declaration order.
TAG_SLOTS ==
    <<SlotTag1, SlotTag2, SlotTag3, SlotTag4, SlotTag5, SlotTag6, SlotTag7,
      SlotNumber1, SlotNumber2, SlotNumber3, SlotNumber4, SlotNumber5,
      SlotDate1, SlotDate2, SlotBoolean1, SlotBoolean2, SlotBoolean3>>

\* String.prototype.startsWith.
startsWith(s, prefix) == StartsWithAt(s, prefix, 1)

\* String(value) for the primitives a slot can hold.
StringOf(value) ==
    CASE value.t = "string" -> value.s
      [] value.t = "number" -> NumberToString(value.n)
      [] value.t = "boolean" -> IF value.b THEN LitTrue ELSE LitFalse

\* Three digits of a thousands group, zero padded.
GroupDigits(n) ==
    <<Digits[(n \div 100) + 1], Digits[((n \div 10) % 10) + 1], Digits[(n % 10) + 1]>>

\* Number.prototype.toLocaleString() of a non-negative integer, in a locale
\* that groups thousands with commas (en-US).
RECURSIVE toLocaleString(_)
toLocaleString(n) ==
    IF n < 1000 THEN NumberToString(n)
    ELSE toLocaleString(n \div 1000) \o <<",">> \o GroupDigits(n % 1000)

MonthNames ==
    <<<<"J","a","n">>, <<"F","e","b">>, <<"M","a","r">>, <<"A","p","r">>, <<"M","a","y">>,
      <<"J","u","n">>, <<"J","u","l">>, <<"A","u","g">>, <<"S","e","p">>, <<"O","c","t">>,
      <<"N","o","v">>, <<"D","e","c">>>>

InvalidDate == [valid |-> FALSE]

AllDigits(s, from, to) == \A i \in from..to : IsDigit(s[i])

RECURSIVE DigitsValue(_, _, _, _)
DigitsValue(s, i, to, n) ==
    IF i > to THEN n ELSE DigitsValue(s, i + 1, to, n * 10 + DigitValue(s[i]))

\* new Date(text) for the ISO forms YYYY-MM-DD and YYYY-MM-DDT00:00:00Z with a
\* day of the month every month has; any other text of the inputs is an
\* Invalid Date.
DateFromString(s) ==
    IF /\ Len(s) \in {10, 10 + Len(TextIsoTail)}
       /\ AllDigits(s, 1, 4) /\ s[5] = "-" /\ AllDigits(s, 6, 7) /\ s[8] = "-"
       /\ AllDigits(s, 9, 10)
       /\ (Len(s) > 10 => StartsWithAt(s, TextIsoTail, 11))
       /\ DigitsValue(s, 6, 7, 0) \in 1..12
       /\ DigitsValue(s, 9, 10, 0) \in 1..28
    THEN [valid |-> TRUE, year |-> DigitsValue(s, 1, 4, 0), month |-> DigitsValue(s, 6, 7, 0),
          day |-> DigitsValue(s, 9, 10, 0)]
    ELSE InvalidDate

\* new Date(value): a string is parsed; a number is milliseconds since the
\* epoch and a boolean converts to 0 or 1 (all within the epoch's first day).
NewDate(value) ==
    CASE value.t = "string" -> DateFromString(value.s)
      [] value.t = "number" /\ value.n < 86400000 -> [valid |-> TRUE, year |-> 1970, month |-> 1, day |-> 1]
      [] value.t = "boolean" -> [valid |-> TRUE, year |-> 1970, month |-> 1, day |-> 1]

\* date-fns format(date, 'MMM d, yyyy'), in the UTC time zone: ok with the
\* text, or not ok where format throws a RangeError on an Invalid Date.
format(date) ==
    IF date.valid
    THEN [ok |-> TRUE,
          s |-> MonthNames[date.month] \o <<" ">> \o NumberToString(date.day)
                    \o TextCommaSpace \o NumberToString(date.year)]
    ELSE [ok |-> FALSE]

\* formatTagValue with `if (!value) return ''` for its first line: every falsy
\* value formats to the empty string.
formatTagValueSkippingFalsy(value, fieldType) ==
    IF ~Truthy(value) THEN <<>>
    ELSE
        CASE fieldType = "date" ->
                LET formatted == format(NewDate(value)) IN
                IF formatted.ok THEN formatted.s ELSE StringOf(value)
          [] fieldType = "boolean" -> IF Truthy(value) THEN TextYes ELSE TextNo
          [] fieldType = "number" ->
                IF value.t = "number" THEN toLocaleString(value.n) ELSE StringOf(value)
          [] OTHER -> StringOf(value)

\* Formats a tag value based on its field type.
formatTagValue(value, fieldType) ==
    IF value.t \in {"null", "undefined"} THEN <<>>
    ELSE
        CASE fieldType = "date" ->
                LET formatted == format(NewDate(value)) IN
                IF formatted.ok THEN formatted.s ELSE StringOf(value)
          [] fieldType = "boolean" -> IF Truthy(value) THEN TextYes ELSE TextNo
          [] fieldType = "number" ->
                IF value.t = "number" THEN toLocaleString(value.n) ELSE StringOf(value)
          [] OTHER -> StringOf(value)

\* Gets the field type for a tag slot.
getFieldType(slot) ==
    IF startsWith(slot, PrefixTag) THEN "text"
    ELSE IF startsWith(slot, PrefixNumber) THEN "number"
    ELSE IF startsWith(slot, PrefixDate) THEN "date"
    ELSE IF startsWith(slot, PrefixBoolean) THEN "boolean"
    ELSE "text"

\* document[slot]: the value of the document's entry with that key.
DocumentValue(doc, slot) ==
    IF \E i \in 1..Len(doc) : doc[i].key = slot
    THEN doc[CHOOSE i \in 1..Len(doc) : doc[i].key = slot].value
    ELSE Undefined

NoDefinition == [t |-> "undefined"]

\* tagDefinitions.find((def) => def.tagSlot === slot): the first match.
FindDefinition(defs, slot) ==
    IF \E i \in 1..Len(defs) : defs[i].tagSlot = slot
    THEN defs[CHOOSE i \in 1..Len(defs) :
                /\ defs[i].tagSlot = slot
                /\ \A j \in 1..(i - 1) : defs[j].tagSlot # slot]
    ELSE NoDefinition

\* Lines 84-100: the loop over TAG_SLOTS, from slot number i on.
RECURSIVE CollectTags(_, _, _, _)
CollectTags(doc, defs, i, result) ==
    IF i > Len(TAG_SLOTS) THEN result
    ELSE
        LET slot == TAG_SLOTS[i]
            value == DocumentValue(doc, slot)
        IN  IF value.t \in {"null", "undefined"} THEN CollectTags(doc, defs, i + 1, result)
            ELSE
                LET definition == FindDefinition(defs, slot)
                    fieldType ==
                        IF definition # NoDefinition /\ definition.fieldType # ""
                        THEN definition.fieldType ELSE getFieldType(slot)
                    formattedValue == formatTagValue(value, fieldType)
                IN  IF formattedValue = <<>> THEN CollectTags(doc, defs, i + 1, result)
                    ELSE CollectTags(doc, defs, i + 1,
                            Append(result,
                                [slot |-> slot,
                                 displayName |->
                                    IF definition # NoDefinition /\ definition.displayName # <<>>
                                    THEN definition.displayName ELSE slot,
                                 value |-> formattedValue,
                                 fieldType |-> fieldType]))

\* slice(0, to) taking one element too many.
SliceToOneMore(s, to) == SubSeq(s, 1, IF to + 1 < Len(s) THEN to + 1 ELSE Len(s))

\* Array.prototype.slice(from) and slice(0, to).
SliceFrom(s, from) == SubSeq(s, from + 1, Len(s))

SliceTo(s, to) == SubSeq(s, 1, IF to < Len(s) THEN to ELSE Len(s))

\* Lines 115-126: an inline badge with its tooltip.
InlineBadge(tag) ==
    [key |-> tag.slot, text |-> tag.value,
     tooltip |-> tag.displayName \o TextColonSpace \o tag.value]

\* Lines 146-156: a row of the popover's detail panel.
PanelRow(tag) == [key |-> tag.slot, label |-> tag.displayName, value |-> tag.value]

\* Lines 81-162: the element DocumentTagsCell returns.
DocumentTagsCell(doc, defs) ==
    LET tags == CollectTags(doc, defs, 1, <<>>) IN
    IF Len(tags) = 0 THEN [kind |-> "placeholder", text |-> <<"U+2014">>, tags |-> tags]
    ELSE
        LET visibleTags == SliceTo(tags, 2)
            overflowTags == SliceFrom(tags, 2)
            hasOverflow == Len(overflowTags) > 0
        IN  [kind |-> "cell",
             tags |-> tags,
             badges |-> [i \in 1..Len(visibleTags) |-> InlineBadge(visibleTags[i])],
             overflow |->
                IF hasOverflow
                THEN <<[count |-> <<"+">> \o NumberToString(Len(overflowTags)),
                        tooltip |-> Join([i \in 1..Len(overflowTags) |->
                                            overflowTags[i].displayName], TextCommaSpace),
                        panel |-> [i \in 1..Len(tags) |-> PanelRow(tags[i])]]>>
                ELSE <<>>]

(***************************************************************************)
(* Inputs of DocumentTagsCell                                              *)
(***************************************************************************)

MaxEntries == 3

\* The slots the documents populate, in declaration order.
DocSlots == <<SlotTag1, SlotTag7, SlotNumber1, SlotDate2, SlotBoolean1, SlotBoolean3>>

\* The values a slot of each kind stores (null included), by the slot's kind.
SlotValues(slot) ==
    CASE getFieldType(slot) = "text" -> {Null, Str(<<>>), Str(TextAlpha)}
      [] getFieldType(slot) = "number" -> {Null, Num(0), Num(1234)}
      [] getFieldType(slot) = "date" -> {Null, Str(TextIsoDate), Str(TextNotADate)}
      [] getFieldType(slot) = "boolean" -> {Null, Bool(TRUE), Bool(FALSE)}

\* The entries of a document whose keys are in declaration order.
RECURSIVE EntriesFrom(_, _)
EntriesFrom(f, i) ==
    IF i > Len(DocSlots) THEN <<>>
    ELSE IF f[i] = Undefined THEN EntriesFrom(f, i + 1)
    ELSE <<[key |-> DocSlots[i], value |-> f[i]]>> \o EntriesFrom(f, i + 1)

Reverse(s) == [i \in 1..Len(s) |-> s[Len(s) + 1 - i]]

\* Documents with at most MaxEntries populated slots, their keys in
\* declaration order or in the reverse order.
Documents ==
    LET choices ==
            {f \in [1..Len(DocSlots) -> UNION {SlotValues(DocSlots[i]) : i \in 1..Len(DocSlots)}
                                          \cup {Undefined}] :
                /\ \A i \in 1..Len(DocSlots) :
                        f[i] = Undefined \/ f[i] \in SlotValues(DocSlots[i])
                /\ Cardinality({i \in 1..Len(DocSlots) : f[i] # Undefined}) <= MaxEntries}
    IN  {EntriesFrom(f, 1) : f \in choices} \cup {Reverse(EntriesFrom(f, 1)) : f \in choices}

FieldTypes == {"text", "number", "date", "boolean"}

Definition(slot, fieldType) ==
    [tagSlot |-> slot, displayName |-> TextTopic, fieldType |-> fieldType]

\* Tag definition lists: none, one definition, or two (for the same slot, or
\* for two slots).
DefinitionLists ==
    {<<>>}
    \cup {<<Definition(slot, ft)>> : slot \in {SlotTag1, SlotNumber1, SlotBoolean1}, ft \in FieldTypes}
    \cup {<<Definition(SlotTag1, "boolean"), Definition(SlotTag1, "number")>>,
          <<Definition(SlotDate2, "text"), Definition(SlotBoolean3, "date")>>}

IdleCell == document = <<>> /\ tagDefinitions = <<>> /\ rendered = NotCalled

\* One render pass of the component.
Render ==
    /\ ~rendered.done
    /\ rendered' = [done |-> TRUE, element |-> DocumentTagsCell(document, tagDefinitions)]
    /\ UNCHANGED <<document, tagDefinitions, execVars, credVars>>

(***************************************************************************)
(* Specifications                                                          *)
(***************************************************************************)

Init == IdleExec /\ IdleCred /\ IdleCell

Next ==
    \/ \E c \in Contexts, b \in Blocks, inputs \in InputObjects :
            ExecuteToolNotFound(c, b, inputs)
    \/ \E c \in Contexts, b \in Blocks, inputs \in InputObjects, bc \in BlockConfigs :
            ExecuteCall(c, b, inputs, bc)
    \/ \E result \in FailureResults, now \in Clock : ToolReportsFailure(result, now)
    \/ \E result \in SuccessResults : ToolSucceeds(result)
    \/ \E thrown \in ThrownValues : ToolThrows(thrown)
    \/ RunEnds

Spec == Init /\ [][Next]_vars

InitCred == IdleExec /\ IdleCell /\ originalError \in ErrorTexts /\ enhanced = NotCalled

NextCred == CallEnhance

SpecCred == InitCred /\ [][NextCred]_vars

InitCell ==
    /\ IdleExec
    /\ IdleCred
    /\ document \in Documents
    /\ tagDefinitions \in DefinitionLists
    /\ rendered = NotCalled

NextCell == Render

SpecCell == InitCell /\ [][NextCell]_vars

(***************************************************************************)
(* Properties of enhanceCredentialError                                    *)
(***************************************************************************)

\* Two characters that are the same letter up to case, or the same character.
LetterPairs == {<<UpperAlpha[j], LowerAlpha[j]>> : j \in 1..Len(UpperAlpha)}

SameIgnoringCase(a, b) == a = b \/ <<a, b>> \in LetterPairs \/ <<b, a>> \in LetterPairs

\* pat occurs in s, letters compared without regard to case.
ContainsIgnoringCase(s, pat) ==
    \E i \in 0..(Len(s) - Len(pat)) :
        \A k \in 1..Len(pat) : SameIgnoringCase(s[i + k], pat[k])

\* The credential patterns as the specification lists them.
CredentialPattern(s) ==
    \/ ContainsIgnoringCase(s, PatInvalidRapt)
    \/ ContainsIgnoringCase(s, PatReauthRelated)
    \/ ContainsIgnoringCase(s, PatInvalidGrant) /\ ContainsIgnoringCase(s, PatRapt)
    \/ ContainsIgnoringCase(s, PatRefreshToken)
    \/ ContainsIgnoringCase(s, PatFetchToken) /\ ContainsIgnoringCase(s, Pat401)

\* What the specification says enhancement returns for the text s.
ExpectedEnhancement(s) == IF CredentialPattern(s) THEN RemediationMessage ELSE s

\* The remediation message mentions "Reauthentication policy".
RemediationMentionsPolicy ==
    \E i \in 1..Len(RemediationMessage) :
        SubSeq(RemediationMessage, i, i + Len(TextReauthPolicy) - 1) = TextReauthPolicy

\* C4: enhanceCredentialError(s) is the fixed remediation message, which mentions
\* "Reauthentication policy", exactly when s matches a credential pattern without
\* regard to case, and is s itself for every other s.
C4_EnhancementMatchesPatterns ==
    enhanced.done =>
        /\ enhanced.value = ExpectedEnhancement(originalError)
        /\ (enhanced.value = RemediationMessage) <=> CredentialPattern(originalError)
        /\ RemediationMentionsPolicy

\* C4 witness: an upper-case INVALID_RAPT text was enhanced to the remediation message.
C4_Witness ==
    /\ enhanced.done
    /\ originalError = TextInvalidRaptUpper
    /\ enhanced.value = RemediationMessage

(***************************************************************************)
(* Properties of GoogleVaultBlockHandler.execute                           *)
(***************************************************************************)

\* getTool resolved the block's tool in this run.
ToolResolved == pc # "idle" /\ args.block.config.tool = TextCreateMatters

\* The block has a name.
BlockNamed == args.block.metadata.name # Undefined /\ args.block.metadata.name.s # <<>>

\* executeTool returned a result with success = false and the run is over.
FailureReported == pc = "rejected" /\ produced.kind = "result" /\ ~produced.value.p.success.b

\* The error string of the reported result, empty when it carries none.
ReportedErrorText ==
    IF "error" \in DOMAIN produced.value.p THEN produced.value.p.error.s ELSE <<>>

\* The message the specification gives the error raised for a failure result.
ClaimedFailureMessage ==
    IF ReportedErrorText # <<>> THEN ExpectedEnhancement(ReportedErrorText)
    ELSE TextBlockExecutionOf \o TextVaultCreateMatter \o TextFailedNoMessage

\* 'Block execution of <tool name> failed', with ': <block name>' for a named block.
ClaimedFallbackMessage ==
    TextBlockExecutionOf \o TextVaultCreateMatter \o TextFailed
        \o (IF BlockNamed THEN TextColonSpace \o args.block.metadata.name.s ELSE <<>>)

\* The diagnostic fields of the error raised for a failure result.
FailureDiagnostics ==
    LET e == outcome.error.p
        r == produced.value.p
    IN  /\ outcome.kind = "rejected"
        /\ outcome.raised = "constructed"
        /\ InstanceOfError(outcome.error)
        /\ e.toolId = Str(args.block.config.tool)
        /\ e.toolName = Str(TextVaultCreateMatter)
        /\ e.blockId = Str(args.block.id)
        /\ e.blockName = IF BlockNamed THEN args.block.metadata.name ELSE Str(TextUnnamedBlock)
        /\ e.output = IF "output" \in DOMAIN r THEN r.output ELSE Obj(NoProps)
        /\ e.timestamp \in {Str(now) : now \in Clock}
        /\ (ReportedErrorText = PatRefreshToken =>
                /\ ContainsIgnoringCase(e.message.s, TextReauthPolicy)
                /\ e.message.s = RemediationMessage)

\* C3 as stated: the error raised for a failure result has the enhanced error
\* string (or the no-error-message default) as its message, and the diagnostics.
C3_FailureMessageAsStated ==
    FailureReported =>
        /\ FailureDiagnostics
        /\ outcome.error.p.message = Str(ClaimedFailureMessage)

\* C3 amended: as stated, except that a message equal to 'undefined (undefined)'
\* is replaced by 'Block execution of <tool name> failed', followed by
\* ': <block name>' when the block has a name.
C3_FailureMessageAmended ==
    FailureReported =>
        /\ FailureDiagnostics
        /\ outcome.error.p.message =
                IF ClaimedFailureMessage = TextPlaceholder THEN Str(ClaimedFallbackMessage)
                ELSE Str(ClaimedFailureMessage)

\* C3 witness: a result whose error string is 'undefined (undefined)' was reported.
C3_Witness == FailureReported /\ ReportedErrorText = TextPlaceholder /\ BlockNamed

\* The declared type of an input field, "" when the block configuration
\* declares none.
DeclaredType(key) ==
    IF blockConfig = Undefined THEN ""
    ELSE IF \E i \in 1..Len(blockConfig.inputs) : blockConfig.inputs[i].key = key
    THEN LET schema == blockConfig.inputs[CHOOSE i \in 1..Len(blockConfig.inputs) :
                                            blockConfig.inputs[i].key = key].schema
         IN  IF "type" \in DOMAIN schema THEN schema.type ELSE schema.s
    ELSE ""

\* A structured field: declared 'json' or 'array', holding a non-empty string.
StructuredString(key, v) ==
    DeclaredType(key) \in {"json", "array"} /\ v.t = "string" /\ v.s # <<>>

\* The parameters of the one executeTool call, without the added _context.
PassedInputs == [k \in DOMAIN calls[1].params \ {"_context"} |-> calls[1].params[k]]

\* {a: 1}, as JSON.parse builds it.
ObjectA1 == JsonObject(<<[k |-> <<"a">>, v |-> Num(1)]>>)

\* C5 as stated: a structured string field is passed parsed when the string itself
\* is valid JSON and as the original string otherwise; everything else is passed
\* unchanged; a parse failure never prevents the executeTool call.
C5_CoercionAsStated ==
    mergedInputs # Undefined =>
        /\ Len(calls) = 1
        /\ DOMAIN PassedInputs = DOMAIN mergedInputs.p
        /\ \A key \in DOMAIN mergedInputs.p :
                LET v == mergedInputs.p[key] IN
                IF StructuredString(key, v)
                THEN PassedInputs[key] = IF JSONparse(v.s).ok THEN JSONparse(v.s).v ELSE v
                ELSE PassedInputs[key] = v

\* C5 amended: a structured string field is passed parsed when the string, with
\* its leading and trailing white space trimmed, is valid JSON, and as the original
\* string otherwise; everything else is passed unchanged; a parse failure never
\* prevents the executeTool call.
C5_CoercionAmended ==
    mergedInputs # Undefined =>
        /\ Len(calls) = 1
        /\ pc \in {"awaiting", "returned", "rejected"}
        /\ DOMAIN PassedInputs = DOMAIN mergedInputs.p
        /\ \A key \in DOMAIN mergedInputs.p :
                LET v == mergedInputs.p[key] IN
                IF StructuredString(key, v)
                THEN /\ PassedInputs[key] =
                            IF JSONparse(trim(v.s)).ok THEN JSONparse(trim(v.s)).v ELSE v
                     /\ v.s = JsonObjectText => PassedInputs[key] = ObjectA1
                     /\ v.s = JsonMalformedText => PassedInputs[key] = v
                ELSE PassedInputs[key] = v

\* C5 witness: a declared json field held a string that is JSON only after
\* trimming, and the call was made with the parsed object.
C5_Witness ==
    /\ mergedInputs # Undefined
    /\ "query" \in DOMAIN mergedInputs.p
    /\ mergedInputs.p.query = Str(JsonBomText)
    /\ DeclaredType("query") = "json"
    /\ PassedInputs.query = ObjectA1

\* The block type's configuration exposes a parameter transform.
HasTransform == blockConfig # Undefined /\ blockConfig.params # "absent"

\* C6: with a parameter transform, the inputs passed on are the raw inputs with
\* the transform's output merged over them; a transform that throws is swallowed,
\* the raw inputs pass through, and coercion and the executeTool call still happen.
C6_TransformMergedOrSwallowed ==
    (mergedInputs # Undefined /\ HasTransform) =>
        LET raw == args.inputs
            out == ApplyParams(blockConfig.params, raw)
            merged == mergedInputs.p
        IN  /\ Len(calls) = 1
            /\ out.ok =>
                /\ DOMAIN merged = (DOMAIN raw) \cup (DOMAIN out.v)
                /\ \A k \in DOMAIN out.v : merged[k] = out.v[k]
                /\ \A k \in (DOMAIN raw) \ (DOMAIN out.v) : merged[k] = raw[k]
            /\ ~out.ok =>
                /\ merged = raw
                /\ \A k \in DOMAIN raw :
                        (StructuredString(k, raw[k]) /\ JSONparse(trim(raw[k].s)).ok)
                            => PassedInputs[k] = JSONparse(trim(raw[k].s)).v

\* C6 witness: the transform threw, and the raw JSON string was still coerced
\* and passed to executeTool.
C6_Witness ==
    /\ mergedInputs # Undefined
    /\ HasTransform
    /\ blockConfig.params = "throws"
    /\ "query" \in DOMAIN args.inputs
    /\ args.inputs.query = Str(JsonObjectText)
    /\ Len(calls) = 1
    /\ PassedInputs.query = ObjectA1

\* executeTool failed in this run: it threw, or returned success = false.
ToolFailed ==
    \/ produced.kind = "throw"
    \/ produced.kind = "result" /\ ~produced.value.p.success.b

\* C7: executeTool is not called when the tool does not resolve (execute rejects
\* with 'Tool not found: <tool id>' before any transform or coercion), and is
\* called exactly once otherwise, after transform and coercion, with both flags
\* false; it is never retried and each of its failures ends the run in a rejection.
C7_ExecuteToolCalledOnce ==
    pc # "idle" =>
        IF ToolResolved
        THEN /\ Len(calls) = 1
             /\ calls[1].toolId = args.block.config.tool
             /\ calls[1].skipProxy = FALSE
             /\ calls[1].skipPostProcess = FALSE
             /\ PassedInputs = finalInputs.p
             /\ calls[1].params["_context"] =
                    Obj([workflowId |-> args.ctx.workflowId, workspaceId |-> args.ctx.workspaceId,
                         executionId |-> args.ctx.executionId])
             /\ ToolFailed => (pc = "rejected" /\ outcome.kind = "rejected")
        ELSE /\ calls = <<>>
             /\ pc = "rejected"
             /\ outcome.kind = "rejected"
             /\ outcome.error.p.message = Str(TextToolNotFound \o args.block.config.tool)
             /\ mergedInputs = Undefined
             /\ finalInputs = Undefined
             /\ warnings = <<>>
             /\ produced = NotProduced

\* C7 witness: executeTool threw, and the run ended rejected after one call.
C7_Witness == ToolResolved /\ produced.kind = "throw" /\ pc = "rejected" /\ Len(calls) = 1

\* The message of a thrown value, empty when it has none.
ThrownMessage(v) == IF PropOf(v, "message").t = "string" THEN PropOf(v, "message").s ELSE <<>>

\* The message the specification gives a thrown error after normalization.
ClaimedThrownMessage(v) ==
    LET m1 == IF InstanceOfError(v) THEN ExpectedEnhancement(ThrownMessage(v))
              ELSE ThrownMessage(v)
    IN  IF m1 = <<>> \/ m1 = TextPlaceholder
        THEN ClaimedFallbackMessage
                \o (IF PropOf(v, "status") # Undefined
                    THEN TextStatusOpen \o NumberToString(PropOf(v, "status").n) \o TextStatusClose
                    ELSE <<>>)
        ELSE m1

\* C8 as stated: when executeTool throws, execute re-raises that same thrown error,
\* its message normalized and toolId and blockName backfilled only where missing.
C8_ThrownErrorReRaised ==
    (pc = "rejected" /\ produced.kind = "throw") =>
        LET thrown == produced.value IN
        /\ outcome.raised = "thrown"
        /\ outcome.error = toolValue
        /\ PropOf(outcome.error, "message") = Str(ClaimedThrownMessage(thrown))
        /\ PropOf(outcome.error, "toolId") =
                IF PropOf(thrown, "toolId") # Undefined THEN PropOf(thrown, "toolId")
                ELSE Str(args.block.config.tool)
        /\ PropOf(outcome.error, "blockName") =
                IF PropOf(thrown, "blockName") # Undefined THEN PropOf(thrown, "blockName")
                ELSE IF BlockNamed THEN args.block.metadata.name ELSE Str(TextUnnamedBlock)

CallerObjectsUnchanged ==
    /\ pc # "idle" =>
        /\ caller.inputs = args.inputs
        /\ caller.block = args.block
        /\ caller.ctx = args.ctx
    /\ produced.kind = "result" => toolValue = produced.value

\* Between two runs the handler holds nothing of the run before.
NothingKeptBetweenRuns == pc = "idle" => IdleExec

\* C10 as stated: the adapter mutates only the error object it constructs; the
\* inputs, the block, the context, the tool result and any error executeTool
\* produced are left unchanged, and two runs share no state.
C10_OnlyOwnErrorMutated ==
    /\ CallerObjectsUnchanged
    /\ produced.kind = "throw" => toolValue = produced.value
    /\ NothingKeptBetweenRuns

\* C10 amended: the adapter mutates only the error object it constructs and an
\* error object thrown by executeTool, of which it may set message, toolId and
\* blockName; the inputs, the block, the context and the tool result are left
\* unchanged, and two runs share no state.
C10_OnlyErrorsMutated ==
    /\ CallerObjectsUnchanged
    /\ produced.kind = "throw" =>
        /\ toolValue.t = produced.value.t
        /\ toolValue.t # "object" => toolValue = produced.value
        /\ toolValue.t = "object" =>
            /\ toolValue.class = produced.value.class
            /\ DOMAIN produced.value.p \subseteq DOMAIN toolValue.p
            /\ \A k \in DOMAIN toolValue.p \ {"message", "toolId", "blockName"} :
                    k \in DOMAIN produced.value.p /\ toolValue.p[k] = produced.value.p[k]
    /\ NothingKeptBetweenRuns

\* C10 witness: a thrown error was changed in place, while a structured input
\* was coerced in the handler's own copy.
C10_Witness ==
    /\ pc = "rejected"
    /\ produced.kind = "throw"
    /\ toolValue # produced.value
    /\ finalInputs.p # args.inputs

(***************************************************************************)
(* Properties of DocumentTagsCell                                          *)
(***************************************************************************)

\* The fixed slot list as the specification gives it: tag1..tag7,
\* number1..number5, date1, date2, boolean1..boolean3.
ClaimedSlots ==
    [i \in 1..17 |->
        IF i <= 7 THEN PrefixTag \o <<Digits[i + 1]>>
        ELSE IF i <= 12 THEN PrefixNumber \o <<Digits[i - 6]>>
        ELSE IF i <= 14 THEN PrefixDate \o <<Digits[i - 11]>>
        ELSE PrefixBoolean \o <<Digits[i - 13]>>]

\* The field type a slot's name prefix stands for.
ClaimedKind(i) ==
    IF i <= 7 THEN "text" ELSE IF i <= 12 THEN "number" ELSE IF i <= 14 THEN "date" ELSE "boolean"

\* The value the document stores under a slot, whatever the order of its keys.
StoredValue(i) ==
    LET hits == {e \in {document[j] : j \in 1..Len(document)} : e.key = ClaimedSlots[i]} IN
    IF hits = {} THEN Undefined ELSE (CHOOSE e \in hits : TRUE).value

\* The definitions matching a slot, by position in tagDefinitions.
MatchingDefinitions(i) ==
    {j \in 1..Len(tagDefinitions) : tagDefinitions[j].tagSlot = ClaimedSlots[i]}

FirstMatching(i) ==
    tagDefinitions[CHOOSE j \in MatchingDefinitions(i) : \A k \in MatchingDefinitions(i) : j <= k]

\* The field type of a slot: its definition's if one exists, otherwise its prefix's.
ClaimedFieldType(i) ==
    IF MatchingDefinitions(i) # {} THEN FirstMatching(i).fieldType ELSE ClaimedKind(i)

\* The label of a slot: its definition's display name if one exists, otherwise
\* the slot's name.
ClaimedLabel(i) ==
    IF MatchingDefinitions(i) # {} THEN FirstMatching(i).displayName ELSE ClaimedSlots[i]

\* A slot qualifies when its stored value is neither null nor undefined and
\* formats to a non-empty string: every value does, but the empty string under
\* a field type other than boolean.
Qualifying ==
    {i \in 1..17 :
        /\ StoredValue(i) \notin {Null, Undefined}
        /\ ~(StoredValue(i) = Str(<<>>) /\ ClaimedFieldType(i) # "boolean")}

\* The qualifying slots in declaration order.
QualifyingInOrder ==
    [k \in 1..Cardinality(Qualifying) |->
        CHOOSE i \in Qualifying : Cardinality({j \in Qualifying : j < i}) = k - 1]

\* C1: at most two inline badges. No qualifying tag: only the placeholder dash.
\* One or two: they are inline, with no overflow affordance. More than two: the
\* first two are inline, a count badge shows +(n-2), its tooltip lists the labels
\* of the other n-2, and the detail panel lists all n.
C1_AtMostTwoInlineBadges ==
    rendered.done =>
        LET el == rendered.element
            n == Cardinality(Qualifying)
            q == QualifyingInOrder
        IN  /\ n = 0 => (el.kind = "placeholder" /\ el.text = <<"U+2014">>
                            /\ "badges" \notin DOMAIN el /\ "overflow" \notin DOMAIN el)
            /\ n >= 1 =>
                /\ el.kind = "cell"
                /\ Len(el.badges) = (IF n < 2 THEN n ELSE 2)
                /\ Len(el.badges) <= 2
                /\ \A k \in 1..Len(el.badges) : el.badges[k].key = ClaimedSlots[q[k]]
            /\ n \in 1..2 => el.overflow = <<>>
            /\ n > 2 =>
                /\ Len(el.overflow) = 1
                /\ el.overflow[1].count = <<"+", Digits[n - 1]>>
                /\ el.overflow[1].tooltip =
                        Join([k \in 1..(n - 2) |-> ClaimedLabel(q[k + 2])], TextCommaSpace)
                /\ Len(el.overflow[1].panel) = n
                /\ \A k \in 1..n :
                        /\ el.overflow[1].panel[k].key = ClaimedSlots[q[k]]
                        /\ el.overflow[1].panel[k].label = ClaimedLabel(q[k])

\* C1 witness: three tags qualified, and the cell rendered two badges and +1.
C1_Witness ==
    /\ rendered.done
    /\ Cardinality(Qualifying) = 3
    /\ Len(rendered.element.badges) = 2
    /\ rendered.element.overflow[1].count = <<"+", "1">>

\* C2: the computed tags are the qualifying slots of the fixed slot list, in
\* declaration order whatever the order of the document's keys; a slot's field
\* type is its definition's if one exists and its prefix's otherwise; a
\* boolean-typed slot shows true as "Yes" and false as "No".
C2_TagsInSlotOrder ==
    rendered.done =>
        LET tags == rendered.element.tags
            q == QualifyingInOrder
        IN  /\ TAG_SLOTS = ClaimedSlots
            /\ Len(tags) = Cardinality(Qualifying)
            /\ \A k \in 1..Len(tags) :
                /\ tags[k].slot = ClaimedSlots[q[k]]
                /\ tags[k].fieldType = ClaimedFieldType(q[k])
                /\ tags[k].value # <<>>
                /\ (tags[k].fieldType = "boolean" /\ StoredValue(q[k]) = Bool(TRUE))
                        => tags[k].value = TextYes
                /\ (tags[k].fieldType = "boolean" /\ StoredValue(q[k]) = Bool(FALSE))
                        => tags[k].value = TextNo

\* C2 witness: a document whose keys are in reverse order, with a definition
\* overriding the type of tag1, rendered tag1 first and boolean1 = false as "No".
C2_Witness ==
    /\ rendered.done
    /\ Len(document) = 3
    /\ document[1].key = SlotBoolean1
    /\ Len(rendered.element.tags) = 3
    /\ rendered.element.tags[1].slot = SlotTag1
    /\ rendered.element.tags[1].fieldType = "boolean"
    /\ rendered.element.tags[3].value = TextNo

=============================================================================
